---- MODULE Spec2Model ----
(***************************************************************************)
(* Resumable chunked download of the Chicago taxi-trips dataset.           *)
(*                                                                         *)
(* Two scripts of the repository are modelled over the same two files      *)
(* (data/dataset.json and data/download_state.json):                       *)
(*   prog = "limit" : src/unnamed/part_000 (byte budget, limit prompt)     *)
(*   prog = "basic" : src/download.js      (no byte budget)                *)
(*                                                                         *)
(* The output file is a sequence of tokens: records are the naturals       *)
(* 0 .. N-1 (the dataset in its ':id' order), '[' ',' ']' are negative     *)
(* integers.  The write stream is a queue of the operations handed to it   *)
(* that have not reached the file yet: the open (with truncate, or for     *)
(* append) and one unit per write() call; Flush moves units to the file,   *)
(* in order, at any later time while the process lives, Kill drops them.   *)
(***************************************************************************)
EXTENDS Integers, Sequences, FiniteSets, TLC

\* ---------------------------------------------------------------- bounds
MaxN == 6          \* largest dataset (records)
MaxKills == 1      \* forced kills per behaviour
MaxLimit == 7      \* largest byte budget the operator may type (bytes)
RecBytes == 2      \* bytes of one serialised record ("{}" is the least)
MaxTampers == 1    \* times the environment damages one of the two files

\* ------------------------------------------------- program constants
CHUNK_SIZE == 2        \* page size, 50000 in the source, scaled
HARDCODED_TOTAL == 3   \* fallback total, 211670894 in the source, scaled
                       \* (like the source's, not a multiple of CHUNK_SIZE)
MAX_RETRIES == 3       \* let retries = 3
null == -1             \* JavaScript null (no limit)
undefined == -8        \* state.offset of a state without an offset
NaN == -9              \* parseInt of a text without leading digits

\* ------------------------------------------------- tokens of the file
LB == -2               \* '['
COMMA == -3            \* ','
RB == -4               \* ']'
OPEN_W == -5           \* createWriteStream(flags 'w'): create/truncate
OPEN_A == -6           \* createWriteStream(flags 'a'): create if missing

VARIABLES
    prog,            \* which script this behaviour runs
    N,               \* records in the remote dataset (fixed)
    pc,              \* position of the process; "idle" = no process
    stateExists,     \* download_state.json exists
    stateOffset,     \* its offset
    stateLimit,      \* its limitBytes (null when none)
    fileExists,      \* dataset.json exists
    disk,            \* bytes of dataset.json that are durable
    buffer,          \* operations accepted by the write stream, not on disk
    offset,          \* let offset
    downloadedBytes, \* let downloadedBytes
    sizeLimitBytes,  \* const sizeLimitBytes
    totalRecords,    \* const totalRecords
    retries,         \* let retries
    records,         \* let records (the fetched page)
    isFirstChunk,    \* let isFirstChunk
    exitBy,          \* why the loop ended: none/total/empty/limit/error
    outcome,         \* how the last process ended
    kills,           \* forced kills so far
    dlLimit,         \* the limit the runs of this download have kept
    limitKept,       \* FALSE once a run of this download changed the limit
    attempts,        \* page requests sent in this loop iteration
    stateKind,       \* what download_state.json holds: state/garbage/object/null
    tampers,         \* times a file was damaged or removed from outside
    answer,          \* how the count query ended, until its value is used
    sent,            \* the run has sent a request (count query or page)
    rlOpen,          \* the readline interface of the prompt is open
    writer           \* the write stream of the run: none/open/ended

vars == <<prog, N, pc, stateExists, stateOffset, stateLimit, fileExists, disk,
          buffer, offset, downloadedBytes, sizeLimitBytes, totalRecords,
          retries, records, isFirstChunk, exitBy, outcome, kills, dlLimit,
          limitKept, attempts, stateKind, tampers, answer, sent, rlOpen,
          writer>>

EXIT == -7             \* process.exit(0) chosen at the prompt

\* ------------------------------------------------------ pure helpers
IsRecord(t) == t >= 0

\* Buffer.length of one token
ByteLen(t) == IF IsRecord(t) THEN RecBytes ELSE 1

RECURSIVE Bytes(_)
Bytes(s) == IF s = <<>> THEN 0 ELSE ByteLen(Head(s)) + Bytes(Tail(s))

RECURSIVE RecCount(_)
RecCount(s) ==
    IF s = <<>> THEN 0
    ELSE (IF IsRecord(Head(s)) THEN 1 ELSE 0) + RecCount(Tail(s))

RECURSIVE CommaCount(_)
CommaCount(s) ==
    IF s = <<>> THEN 0
    ELSE (IF Head(s) = COMMA THEN 1 ELSE 0) + CommaCount(Tail(s))

\* the remote page at `off`: $limit = CHUNK_SIZE, $offset = off, $order = :id
Page(off) ==
    LET left == IF off >= N THEN 0 ELSE N - off
        n == IF left < CHUNK_SIZE THEN left ELSE CHUNK_SIZE
    IN  [i \in 1 .. n |-> off + i - 1]

\* chunkData of the write loop
RECURSIVE ChunkFrom(_, _, _)
ChunkFrom(recs, first, i) ==
    IF i > Len(recs) THEN <<>>
    ELSE (IF ~first \/ i > 1 THEN <<COMMA>> ELSE <<>>)
         \o <<recs[i]>> \o ChunkFrom(recs, first, i + 1)

\* variant: `if (i > 0)`, the resumed chunk starts without its comma
ChunkDataNoLead(recs, first) == ChunkFrom(recs, TRUE, 1)

ChunkData(recs, first) == ChunkFrom(recs, first, 1)

\* effect of stream operations reaching the file
RECURSIVE Apply(_, _)
Apply(d, ops) ==
    IF ops = <<>> THEN d
    ELSE IF Head(ops) = <<OPEN_W>> THEN Apply(<<>>, Tail(ops))
    ELSE IF Head(ops) = <<OPEN_A>> THEN Apply(d, Tail(ops))
    ELSE Apply(d \o Head(ops), Tail(ops))

\* the file once everything handed to the stream has been written
LogicalFile == Apply(IF fileExists THEN disk ELSE <<>>, buffer)

\* JavaScript's relational operators: false when an operand is undefined
\* or NaN
Less(a, b) == {a, b} \cap {undefined, NaN} = {} /\ a < b
AtLeast(a, b) == {a, b} \cap {undefined, NaN} = {} /\ a >= b

\* JSON.parse of the state file returned null: state.offset throws
StateIsNull == stateExists /\ stateKind = "null"

\* readState().offset: 0 when the file is missing or JSON.parse throws,
\* else whatever the parsed value has under `offset`
ReadOffset ==
    IF ~stateExists \/ stateKind = "garbage" THEN 0
    ELSE IF stateKind = "state" THEN stateOffset
    ELSE undefined

\* readState().limitBytes; askUserForLimit treats undefined like null
ReadLimit == IF stateExists /\ stateKind = "state" THEN stateLimit ELSE null

\* ------------------------------------------------- limit negotiation
\* every byte count floor(GB * 2^30) the operator can type, within MaxLimit
LimitInputs == 0 .. MaxLimit

\* A decision of the prompt is <<limit, closed>>: the value the promise
\* resolves with (EXIT: process.exit) and whether rl.close() was called.

\* askNewLimit: (A)ll; (L) with a limit; (L) with an invalid number, which
\* resolves null without rl.close()
askNewLimit ==
    {<<null, TRUE>>, <<null, FALSE>>} \cup {<<b, TRUE>> : b \in LimitInputs}

\* variant: the typed amount replaces the limit instead of extending it
askToExtendReplacing(currentLimit) ==
    {<<d, TRUE>> : d \in {EXIT, null} \cup LimitInputs}

\* askToExtend: 'N' / invalid input exit, 'A' removes the cap, else add
askToExtend(currentLimit) ==
    LET base == IF currentLimit = null THEN 0 ELSE currentLimit
    IN  {<<EXIT, TRUE>>, <<null, TRUE>>}
        \cup {<<base + a, TRUE>> :
                  a \in {b \in LimitInputs : base + b <= MaxLimit}}

askUserForLimit(currentOffset, savedLimitBytes) ==
    IF savedLimitBytes # null
    THEN IF currentOffset < savedLimitBytes
         THEN askNewLimit \cup askToExtend(savedLimitBytes)
              \cup {<<savedLimitBytes, TRUE>>}
         ELSE askToExtend(savedLimitBytes)
    ELSE askNewLimit

\* ------------------------------------------------------------ state
Init ==
    /\ prog \in {"limit", "basic"}
    /\ N \in 0 .. MaxN
    /\ pc = "idle"
    /\ stateExists = FALSE /\ stateOffset = 0 /\ stateLimit = null
    /\ fileExists = FALSE /\ disk = <<>> /\ buffer = <<>>
    /\ offset = 0 /\ downloadedBytes = 0 /\ sizeLimitBytes = null
    /\ totalRecords = 0 /\ retries = 0 /\ records = <<>>
    /\ isFirstChunk = FALSE
    /\ exitBy = "none" /\ outcome = "none" /\ kills = 0
    /\ dlLimit = null /\ limitKept = TRUE
    /\ attempts = 0
    /\ stateKind = "state" /\ tampers = 0 /\ answer = "none" /\ sent = FALSE
    /\ rlOpen = FALSE /\ writer = "none"

\* saveState(offset, limitBytes): fs.writeFileSync of the whole record
saveState(off, lim) ==
    /\ stateExists' = TRUE
    /\ stateKind' = "state"
    /\ stateOffset' = off
    /\ stateLimit' = lim

\* fs.unlinkSync(STATE_FILE) when it exists
unlinkState ==
    /\ stateExists' = FALSE
    /\ stateKind' = "state"
    /\ stateOffset' = 0
    /\ stateLimit' = null

\* the process is gone: its locals are gone with it
ProcessGone ==
    /\ pc' = "idle"
    /\ downloadedBytes' = 0
    /\ retries' = 0
    /\ records' = <<>>
    /\ isFirstChunk' = FALSE
    /\ attempts' = 0
    /\ answer' = "none"
    /\ rlOpen' = FALSE
    /\ writer' = "none"

\* ---------------------------------------------------------- actions
\* part_000: readState, offset, downloadedBytes from the file's size,
\* then askUserForLimit opens the readline interface and prompts
StartLimit ==
    /\ pc = "idle" /\ prog = "limit"
    /\ sizeLimitBytes' = null /\ totalRecords' = 0
    /\ exitBy' = "none" /\ sent' = FALSE
    /\ IF StateIsNull
       THEN /\ outcome' = "Crashed"
            /\ UNCHANGED <<pc, offset, downloadedBytes>>
       ELSE /\ offset' = ReadOffset
            /\ downloadedBytes' =
                   IF Less(0, ReadOffset) /\ fileExists THEN Bytes(disk) ELSE 0
            /\ outcome' = "running"
            /\ pc' = "ask"
    /\ rlOpen' = ~StateIsNull
    /\ UNCHANGED <<prog, N, stateExists, stateOffset, stateLimit, fileExists,
                   disk, buffer, retries, records, isFirstChunk, kills,
                   dlLimit, limitKept, attempts, stateKind, tampers, answer,
                   writer>>

\* part_000: await askUserForLimit(downloadedBytes, state.limitBytes)
NegotiateLimit ==
    /\ pc = "ask"
    /\ \E d \in askUserForLimit(downloadedBytes, ReadLimit) :
         IF d[1] = EXIT
         THEN /\ ProcessGone
              /\ outcome' = "Aborted"
              /\ UNCHANGED sizeLimitBytes
         ELSE /\ sizeLimitBytes' = d[1]
              /\ rlOpen' = ~d[2]
              /\ pc' = "size"
              /\ UNCHANGED <<downloadedBytes, retries, records, isFirstChunk,
                             outcome, attempts, answer, writer>>
    /\ UNCHANGED <<prog, N, stateExists, stateOffset, stateLimit, fileExists,
                   disk, buffer, offset, totalRecords, exitBy, kills, dlLimit, limitKept,
                   stateKind, tampers, sent>>

\* download.js: the run begins with getDatasetSize
StartBasic ==
    /\ pc = "idle" /\ prog = "basic"
    /\ offset' = 0 /\ sizeLimitBytes' = null /\ totalRecords' = 0
    /\ exitBy' = "none" /\ outcome' = "running" /\ sent' = FALSE
    /\ pc' = "size"
    /\ UNCHANGED <<prog, N, stateExists, stateOffset, stateLimit, fileExists,
                   disk, buffer, downloadedBytes, retries, records, isFirstChunk,
                   kills, dlLimit, limitKept, attempts, stateKind, tampers,
                   answer, rlOpen, writer>>

\* what the count query may end with: no answer in 5 s, a network or HTTP
\* error, [] , [{}] , [{"count": "<N in digits>"}]
SizeAnswers == {"timeout", "error", "empty", "nocount", "digits"}

\* answers of a remote that misbehaves: [{"count": "n/a"}] and the count
\* as a JSON number, [{"count": <N>}]
OddSizeAnswers == {"text", "number"}

\* the value getDatasetSize returns for an answer
DatasetSize(a) ==
    IF a \in {"timeout", "error"} THEN HARDCODED_TOTAL
    ELSE IF a \in {"empty", "nocount"} THEN HARDCODED_TOTAL
    ELSE IF a = "digits" THEN N
    ELSE IF a = "number" THEN (IF N = 0 THEN HARDCODED_TOTAL ELSE N)
    ELSE NaN

\* getDatasetSize: the remote count, or HARDCODED_TOTAL on any failure
getDatasetSize ==
    /\ pc = "size"
    /\ answer' \in SizeAnswers
    /\ totalRecords' = DatasetSize(answer')
    /\ sent' = TRUE
    /\ pc' = IF prog = "limit" THEN "open" ELSE "read"
    /\ UNCHANGED <<prog, N, stateExists, stateOffset, stateLimit, fileExists,
                   disk, buffer, offset, downloadedBytes, sizeLimitBytes, retries,
                   records, isFirstChunk, exitBy, outcome, kills, dlLimit, limitKept,
                   attempts, stateKind, tampers, rlOpen, writer>>

\* download.js: readState, then "state file exists but dataset file is missing"
ReadStateBasic ==
    /\ pc = "read"
    /\ IF StateIsNull
       THEN /\ ProcessGone
            /\ outcome' = "Crashed"
            /\ UNCHANGED offset
       ELSE /\ offset' = IF Less(0, ReadOffset) /\ ~fileExists THEN 0 ELSE ReadOffset
            /\ pc' = "open"
            /\ answer' = "none"
            /\ UNCHANGED <<downloadedBytes, retries, records, isFirstChunk,
                           outcome, attempts, rlOpen, writer>>
    /\ UNCHANGED <<prog, N, stateExists, stateOffset, stateLimit, fileExists,
                   disk, buffer, sizeLimitBytes, totalRecords, exitBy, kills,
                   dlLimit, limitKept, stateKind, tampers, sent>>

\* createWriteStream(FILE_PATH, {flags}); '[' when offset is 0
OpenStream ==
    /\ buffer' = IF offset = 0 THEN << <<OPEN_W>>, <<LB>> >> ELSE << <<OPEN_A>> >>
    /\ isFirstChunk' = (offset = 0)
    /\ writer' = "open"
    /\ IF offset = 0 \/ (limitKept /\ dlLimit = sizeLimitBytes)
       THEN dlLimit' = sizeLimitBytes /\ limitKept' = TRUE
       ELSE dlLimit' = null /\ limitKept' = FALSE
    /\ pc' = "loop"

OpenWriterLimit ==
    /\ pc = "open" /\ prog = "limit"
    /\ OpenStream
    /\ answer' = "none"
    /\ downloadedBytes' = downloadedBytes + (IF offset = 0 THEN 1 ELSE 0)
    /\ UNCHANGED <<prog, N, stateExists, stateOffset, stateLimit, fileExists,
                   disk, offset, sizeLimitBytes, totalRecords, retries, records,
                   exitBy, outcome, kills, attempts, stateKind, tampers,
                   sent, rlOpen>>

OpenWriterBasic ==
    /\ pc = "open" /\ prog = "basic"
    /\ OpenStream
    /\ downloadedBytes' = (IF Less(0, offset) /\ fileExists THEN Bytes(disk) ELSE 0)
                          + (IF offset = 0 THEN 1 ELSE 0)
    /\ UNCHANGED <<prog, N, stateExists, stateOffset, stateLimit, fileExists,
                   disk, offset, sizeLimitBytes, totalRecords, retries, records,
                   exitBy, outcome, kills, attempts, stateKind, tampers,
                   answer, sent, rlOpen>>

\* while (offset < totalRecords) { let retries = 3; let records = []; ...
LoopTest ==
    /\ pc = "loop"
    /\ IF Less(offset, totalRecords)
       THEN /\ retries' = MAX_RETRIES
            /\ records' = <<>>
            /\ attempts' = 0
            /\ pc' = "fetch"
            /\ UNCHANGED exitBy
       ELSE /\ pc' = "finalize"
            /\ exitBy' = "total"
            /\ UNCHANGED <<retries, records, attempts>>
    /\ UNCHANGED <<prog, N, stateExists, stateOffset, stateLimit, fileExists,
                   disk, buffer, offset, downloadedBytes, sizeLimitBytes,
                   totalRecords, isFirstChunk, outcome, kills, dlLimit, limitKept,
                   stateKind, tampers, answer, sent, rlOpen, writer>>

\* the request at `offset` is answered: records = response.data; break
FetchSuccess ==
    /\ pc = "fetch"
    /\ attempts' = attempts + 1
    /\ records' = Page(offset)
    /\ pc' = "page"
    /\ UNCHANGED <<prog, N, stateExists, stateOffset, stateLimit, fileExists,
                   disk, buffer, offset, downloadedBytes, sizeLimitBytes,
                   totalRecords, retries, isFirstChunk, exitBy, outcome, kills,
                   dlLimit, limitKept, stateKind, tampers, answer, sent,
                   rlOpen, writer>>

\* variant: without `if (retries === 0) throw e` the inner loop ends with
\* records = [] and the failure reads as an empty page
FetchFailSwallowed ==
    /\ pc = "fetch"
    /\ attempts' = attempts + 1
    /\ retries' = retries - 1
    /\ pc' = IF retries - 1 = 0 THEN "page" ELSE "wait"
    /\ UNCHANGED <<prog, N, stateExists, stateOffset, stateLimit, fileExists,
                   disk, buffer, offset, downloadedBytes, sizeLimitBytes,
                   totalRecords, records, isFirstChunk, exitBy, outcome, kills,
                   dlLimit, limitKept, stateKind, tampers, answer, sent,
                   rlOpen, writer>>

\* variant: the retry budget is never used up
FetchFailRetrying ==
    /\ pc = "fetch"
    /\ pc' = "wait"
    /\ UNCHANGED <<prog, N, stateExists, stateOffset, stateLimit, fileExists,
                   disk, buffer, offset, downloadedBytes, sizeLimitBytes,
                   totalRecords, retries, records, isFirstChunk, exitBy,
                   outcome, kills, dlLimit, limitKept, attempts, stateKind,
                   tampers, answer, sent, rlOpen, writer>>

\* the request fails or times out:
\* catch (e) { retries--; if (retries === 0) throw e; ... }
FetchFail ==
    /\ pc = "fetch"
    /\ attempts' = attempts + 1
    /\ retries' = retries - 1
    /\ IF retries - 1 = 0
       THEN pc' = "catch" /\ exitBy' = "error"
       ELSE pc' = "wait" /\ UNCHANGED exitBy
    /\ UNCHANGED <<prog, N, stateExists, stateOffset, stateLimit, fileExists,
                   disk, buffer, offset, downloadedBytes, sizeLimitBytes,
                   totalRecords, records, isFirstChunk, outcome, kills, dlLimit, limitKept,
                   stateKind, tampers, answer, sent, rlOpen, writer>>

\* await new Promise(r => setTimeout(r, 2000)), then the next attempt
RetryDelay ==
    /\ pc = "wait"
    /\ pc' = "fetch"
    /\ UNCHANGED <<prog, N, stateExists, stateOffset, stateLimit, fileExists,
                   disk, buffer, offset, downloadedBytes, sizeLimitBytes,
                   totalRecords, retries, records, isFirstChunk, exitBy, outcome,
                   kills, dlLimit, limitKept, attempts, stateKind, tampers,
                   answer, sent, rlOpen, writer>>

\* if (records.length === 0) break;
EmptyPage ==
    /\ pc = "page"
    /\ Len(records) = 0
    /\ pc' = "finalize"
    /\ exitBy' = "empty"
    /\ UNCHANGED <<prog, N, stateExists, stateOffset, stateLimit, fileExists,
                   disk, buffer, offset, downloadedBytes, sizeLimitBytes,
                   totalRecords, retries, records, isFirstChunk, outcome, kills,
                   dlLimit, limitKept, attempts, stateKind, tampers, answer,
                   sent, rlOpen, writer>>

\* variant: `>` for `>=`, one more chunk once the count equals the limit
limitReachedStrict ==
    prog = "limit" /\ sizeLimitBytes # null /\ downloadedBytes > sizeLimitBytes

\* the limit test of part_000 (download.js has none)
limitReached ==
    prog = "limit" /\ sizeLimitBytes # null /\ downloadedBytes >= sizeLimitBytes

\* if (sizeLimitBytes !== null && downloadedBytes >= sizeLimitBytes) break;
LimitReached ==
    /\ pc = "page"
    /\ Len(records) # 0
    /\ limitReached
    /\ pc' = "finalize"
    /\ exitBy' = "limit"
    /\ UNCHANGED <<prog, N, stateExists, stateOffset, stateLimit, fileExists,
                   disk, buffer, offset, downloadedBytes, sizeLimitBytes,
                   totalRecords, retries, records, isFirstChunk, outcome, kills,
                   dlLimit, limitKept, attempts, stateKind, tampers, answer,
                   sent, rlOpen, writer>>

\* writer.write(chunkBuffer); downloadedBytes += chunkBuffer.length
WriteChunk ==
    /\ pc = "page"
    /\ Len(records) # 0
    /\ ~limitReached
    /\ LET chunkData == ChunkData(records, isFirstChunk)
       IN  /\ buffer' = Append(buffer, chunkData)
           /\ downloadedBytes' = downloadedBytes + Bytes(chunkData)
    /\ \E canWrite \in BOOLEAN : pc' = IF canWrite THEN "advance" ELSE "drain"
    /\ UNCHANGED <<prog, N, stateExists, stateOffset, stateLimit, fileExists,
                   disk, offset, sizeLimitBytes, totalRecords, retries, records,
                   isFirstChunk, exitBy, outcome, kills, dlLimit, limitKept,
                   attempts, stateKind, tampers, answer, sent, rlOpen,
                   writer>>

\* variant: the loop goes on without the 'drain' event
DrainNotAwaited ==
    /\ pc = "drain"
    /\ pc' = "advance"
    /\ UNCHANGED <<prog, N, stateExists, stateOffset, stateLimit, fileExists,
                   disk, buffer, offset, downloadedBytes, sizeLimitBytes,
                   totalRecords, retries, records, isFirstChunk, exitBy, outcome,
                   kills, dlLimit, limitKept, attempts, stateKind, tampers,
                   answer, sent,
                   rlOpen, writer>>

\* await new Promise(resolve => writer.once('drain', resolve))
Drain ==
    /\ pc = "drain"
    /\ buffer = <<>>
    /\ pc' = "advance"
    /\ UNCHANGED <<prog, N, stateExists, stateOffset, stateLimit, fileExists,
                   disk, buffer, offset, downloadedBytes, sizeLimitBytes,
                   totalRecords, retries, records, isFirstChunk, exitBy, outcome,
                   kills, dlLimit, limitKept, attempts, stateKind, tampers,
                   answer, sent, rlOpen, writer>>

\* variant: the state is saved before the offset is advanced
AdvanceSaveFirst ==
    /\ pc = "advance"
    /\ offset' = offset + Len(records)
    /\ isFirstChunk' = FALSE
    /\ saveState(offset, IF prog = "limit" THEN sizeLimitBytes ELSE null)
    /\ pc' = "loop"
    /\ UNCHANGED <<prog, N, fileExists, disk, buffer, downloadedBytes,
                   sizeLimitBytes, totalRecords, retries, records, exitBy,
                   outcome, kills, dlLimit, limitKept, attempts, tampers,
                   answer, sent,
                   rlOpen, writer>>

\* offset += records.length; isFirstChunk = false; saveState(...)
Advance ==
    /\ pc = "advance"
    /\ offset' = offset + Len(records)
    /\ isFirstChunk' = FALSE
    /\ saveState(offset + Len(records),
                 IF prog = "limit" THEN sizeLimitBytes ELSE null)
    /\ pc' = "loop"
    /\ UNCHANGED <<prog, N, fileExists, disk, buffer, downloadedBytes,
                   sizeLimitBytes, totalRecords, retries, records, exitBy,
                   outcome, kills, dlLimit, limitKept, attempts, tampers,
                   answer, sent, rlOpen, writer>>

\* variant: the array is closed however the loop ended, as in download.js
FinalizeLimitAlways ==
    /\ pc = "finalize" /\ prog = "limit"
    /\ buffer' = Append(buffer, <<RB>>)
    /\ outcome' = "Completed"
    /\ pc' = "cleanup"
    /\ UNCHANGED <<prog, N, stateExists, stateOffset, stateLimit, fileExists,
                   disk, offset, downloadedBytes, sizeLimitBytes, totalRecords,
                   retries, records, isFirstChunk, exitBy, kills, dlLimit,
                   limitKept, attempts, stateKind, tampers, answer, sent,
                   rlOpen, writer>>

\* part_000: if (offset >= totalRecords) writer.write(']') ... else "Paused"
FinalizeLimit ==
    /\ pc = "finalize" /\ prog = "limit"
    /\ IF AtLeast(offset, totalRecords)
       THEN /\ buffer' = Append(buffer, <<RB>>)
            /\ outcome' = "Completed"
            /\ pc' = "cleanup"
            /\ UNCHANGED writer
       ELSE /\ outcome' = "Paused"
            /\ pc' = "end"
            /\ writer' = "ended"
            /\ UNCHANGED buffer
    /\ UNCHANGED <<prog, N, stateExists, stateOffset, stateLimit, fileExists,
                   disk, offset, downloadedBytes, sizeLimitBytes, totalRecords,
                   retries, records, isFirstChunk, exitBy, kills, dlLimit, limitKept,
                   attempts, stateKind, tampers, answer, sent, rlOpen>>

\* download.js: writer.write(']'); writer.end() after the loop, always
FinalizeBasic ==
    /\ pc = "finalize" /\ prog = "basic"
    /\ buffer' = Append(buffer, <<RB>>)
    /\ writer' = "ended"
    /\ outcome' = "Completed"
    /\ pc' = "cleanup"
    /\ UNCHANGED <<prog, N, stateExists, stateOffset, stateLimit, fileExists,
                   disk, offset, downloadedBytes, sizeLimitBytes, totalRecords,
                   retries, records, isFirstChunk, exitBy, kills, dlLimit, limitKept,
                   attempts, stateKind, tampers, answer, sent, rlOpen>>

\* if (fs.existsSync(STATE_FILE)) fs.unlinkSync(STATE_FILE); writer.end()
Cleanup ==
    /\ pc = "cleanup"
    /\ unlinkState
    /\ writer' = "ended"
    /\ pc' = "end"
    /\ UNCHANGED <<prog, N, fileExists, disk, buffer, offset, downloadedBytes,
                   sizeLimitBytes, totalRecords, retries, records, isFirstChunk,
                   exitBy, outcome, kills, dlLimit, limitKept, attempts,
                   tampers, answer, sent, rlOpen>>

\* part_000: catch: saveState(offset, sizeLimitBytes); writer.end()
CatchLimit ==
    /\ pc = "catch" /\ prog = "limit"
    /\ saveState(offset, sizeLimitBytes)
    /\ writer' = "ended"
    /\ outcome' = "Failed"
    /\ pc' = "end"
    /\ UNCHANGED <<prog, N, fileExists, disk, buffer, offset, downloadedBytes,
                   sizeLimitBytes, totalRecords, retries, records, isFirstChunk,
                   exitBy, kills, dlLimit, limitKept, attempts, tampers,
                   answer, sent, rlOpen>>

\* download.js: catch: writer.end(), the state file is not touched
CatchBasic ==
    /\ pc = "catch" /\ prog = "basic"
    /\ writer' = "ended"
    /\ outcome' = "Failed"
    /\ pc' = "end"
    /\ UNCHANGED <<prog, N, stateExists, stateOffset, stateLimit, fileExists,
                   disk, buffer, offset, downloadedBytes, sizeLimitBytes,
                   totalRecords, retries, records, isFirstChunk, exitBy, kills,
                   dlLimit, limitKept, attempts, stateKind, tampers, answer,
                   sent, rlOpen>>

\* the stream writes what it was handed, in order, while the process lives
Flush ==
    /\ pc # "idle"
    /\ buffer # <<>>
    /\ \E k \in 1 .. Len(buffer) :
         /\ disk' = Apply(IF fileExists THEN disk ELSE <<>>, SubSeq(buffer, 1, k))
         /\ buffer' = SubSeq(buffer, k + 1, Len(buffer))
    /\ fileExists' = TRUE
    /\ UNCHANGED <<prog, N, pc, stateExists, stateOffset, stateLimit, offset,
                   downloadedBytes, sizeLimitBytes, totalRecords, retries,
                   records, isFirstChunk, exitBy, outcome, kills, dlLimit, limitKept,
                   attempts, stateKind, tampers, answer, sent, rlOpen,
                   writer>>

\* the process exits once nothing keeps it alive: the ended stream has
\* finished and no readline interface is open on stdin
Exit ==
    /\ pc = "end"
    /\ writer = "ended" /\ buffer = <<>>
    /\ ~rlOpen
    /\ ProcessGone
    /\ UNCHANGED <<prog, N, stateExists, stateOffset, stateLimit, fileExists,
                   disk, buffer, offset, sizeLimitBytes, totalRecords, exitBy,
                   outcome, kills, dlLimit, limitKept, stateKind, tampers,
                   sent>>

\* stdin reaches its end: a readline interface left open closes itself
InputEnds ==
    /\ pc = "end"
    /\ rlOpen
    /\ rlOpen' = FALSE
    /\ UNCHANGED <<prog, N, pc, stateExists, stateOffset, stateLimit,
                   fileExists, disk, buffer, offset, downloadedBytes,
                   sizeLimitBytes, totalRecords, retries, records,
                   isFirstChunk, exitBy, outcome, kills, dlLimit, limitKept,
                   attempts, stateKind, tampers, answer, sent, writer>>

\* Ctrl+C / kill: what the stream still held never reaches the file
Kill ==
    /\ pc # "idle"
    /\ kills < MaxKills
    /\ kills' = kills + 1
    /\ buffer' = <<>>
    /\ outcome' = "Killed"
    /\ ProcessGone
    /\ UNCHANGED <<prog, N, stateExists, stateOffset, stateLimit, fileExists,
                   disk, offset, sizeLimitBytes, totalRecords, exitBy, dlLimit, limitKept,
                   stateKind, tampers, sent>>

Next ==
    \/ StartLimit \/ NegotiateLimit \/ StartBasic \/ getDatasetSize
    \/ ReadStateBasic \/ OpenWriterLimit \/ OpenWriterBasic
    \/ LoopTest \/ FetchSuccess \/ FetchFail \/ RetryDelay
    \/ EmptyPage \/ LimitReached \/ WriteChunk \/ Drain \/ Advance
    \/ FinalizeLimit \/ FinalizeBasic \/ Cleanup \/ CatchLimit \/ CatchBasic
    \/ Flush \/ InputEnds \/ Exit \/ Kill

Spec == Init /\ [][Next]_vars

\* ------------------------------------------- runs left to themselves
\* a step of a started run: every request is answered or times out, the
\* operator answers the prompt, the stream writes and signals 'drain'
RunStep ==
    \/ NegotiateLimit \/ getDatasetSize
    \/ ReadStateBasic \/ OpenWriterLimit \/ OpenWriterBasic
    \/ LoopTest \/ FetchSuccess \/ FetchFail \/ RetryDelay
    \/ EmptyPage \/ LimitReached \/ WriteChunk \/ Drain \/ Advance
    \/ FinalizeLimit \/ FinalizeBasic \/ Cleanup \/ CatchLimit \/ CatchBasic
    \/ Flush \/ InputEnds \/ Exit

NextRun == StartLimit \/ StartBasic \/ RunStep

\* no run is killed, and a run that can take a step takes one
FairSpec == Init /\ [][NextRun]_vars /\ WF_vars(RunStep)

\* ------------------------------------------- a faulty environment
\* MaxTampers bounds what is done to the two files from outside.
\* Between two runs something else rewrites download_state.json: bytes that
\* are not JSON, a JSON object without an offset ({}), or the JSON null
CorruptState ==
    /\ pc = "idle"
    /\ tampers < MaxTampers
    /\ tampers' = tampers + 1
    /\ stateExists' = TRUE
    /\ stateKind' \in {"garbage", "object", "null"}
    /\ stateOffset' = 0
    /\ stateLimit' = null
    /\ UNCHANGED <<prog, N, pc, fileExists, disk, buffer, offset,
                   downloadedBytes, sizeLimitBytes, totalRecords, retries,
                   records, isFirstChunk, exitBy, outcome, kills, dlLimit,
                   limitKept, attempts, answer, sent,
                   rlOpen, writer>>

\* between two runs dataset.json is deleted or moved away
DeleteOutput ==
    /\ pc = "idle"
    /\ fileExists
    /\ tampers < MaxTampers
    /\ tampers' = tampers + 1
    /\ fileExists' = FALSE
    /\ disk' = <<>>
    /\ UNCHANGED <<prog, N, pc, stateExists, stateOffset, stateLimit, buffer,
                   offset, downloadedBytes, sizeLimitBytes, totalRecords,
                   retries, records, isFirstChunk, exitBy, outcome, kills,
                   dlLimit, limitKept, attempts, stateKind, answer, sent,
                   rlOpen, writer>>

\* getDatasetSize when the remote answers with an odd count
OddDatasetSize ==
    /\ pc = "size"
    /\ answer' \in OddSizeAnswers
    /\ totalRecords' = DatasetSize(answer')
    /\ sent' = TRUE
    /\ pc' = IF prog = "limit" THEN "open" ELSE "read"
    /\ UNCHANGED <<prog, N, stateExists, stateOffset, stateLimit, fileExists,
                   disk, buffer, offset, downloadedBytes, sizeLimitBytes,
                   retries, records, isFirstChunk, exitBy, outcome, kills,
                   dlLimit, limitKept, attempts, stateKind, tampers,
                   rlOpen, writer>>

\* the runs that are left to end on their own, in that environment
NextEnv ==
    \/ StartLimit \/ NegotiateLimit \/ StartBasic \/ getDatasetSize
    \/ OddDatasetSize
    \/ ReadStateBasic \/ OpenWriterLimit \/ OpenWriterBasic
    \/ LoopTest \/ FetchSuccess \/ FetchFail \/ RetryDelay
    \/ EmptyPage \/ LimitReached \/ WriteChunk \/ Drain \/ Advance
    \/ FinalizeLimit \/ FinalizeBasic \/ Cleanup \/ CatchLimit \/ CatchBasic
    \/ Flush \/ InputEnds \/ Exit
    \/ CorruptState \/ DeleteOutput

SpecEnv == Init /\ [][NextEnv]_vars

\* ------------------------------------------- vocabulary of the claims
Ended == pc = "idle" /\ outcome \in {"Completed", "Paused", "Failed"}

Recs(s) == SelectSeq(s, IsRecord)

Closed(s) == s # <<>> /\ s[Len(s)] = RB

\* '[' r0 ',' r1 ... ',' r(k-1)
RECURSIVE ArrayPrefix(_)
ArrayPrefix(k) ==
    IF k = 0 THEN <<LB>>
    ELSE IF k = 1 THEN <<LB, 0>>
    ELSE ArrayPrefix(k - 1) \o <<COMMA, k - 1>>

\* '[' then whole records separated by single commas: ']' would close it
ValidPrefix(s) ==
    /\ Len(s) >= 1
    /\ s[1] = LB
    /\ Len(s) = 1 \/ Len(s) % 2 = 0
    /\ \A i \in 2 .. Len(s) :
         IF i % 2 = 0 THEN IsRecord(s[i]) ELSE s[i] = COMMA

\* the heaviest chunk: CHUNK_SIZE records, each with its comma
ChunkWeight == CHUNK_SIZE * (RecBytes + 1)

(* C1: after a kill at any point of a run, the bytes on disk are '['
   followed by comma-separated whole records, and their number equals the
   offset in the state file. *)
C1_ValidPrefixUnderKill ==
    (pc = "idle" /\ outcome = "Killed" /\ stateExists /\ fileExists)
        => (ValidPrefix(disk) /\ RecCount(disk) = ReadOffset)

(* C2: whenever the state file holds offset K, the first K dataset records
   are already durably in the output file. *)
C2_OffsetImpliesDurable ==
    stateExists =>
        /\ Len(Recs(disk)) >= stateOffset
        /\ \A i \in 1 .. stateOffset : Recs(disk)[i] = i - 1

(* C3: a run never works from an offset smaller than the persisted one, and
   a run that reaches Completed has offset = the dataset's number of
   records. *)
C3_MonotonicOffset ==
    /\ (pc \in {"open", "loop", "fetch", "page", "drain", "advance",
                "finalize", "catch"}) => offset >= ReadOffset
    /\ (pc = "idle" /\ outcome = "Completed") => offset = N

(* C4: at the end of a run the closing ']' is in the file exactly when the
   loop ended because the dataset had no more records. *)
C4_FinalizeIffExhausted ==
    (Ended /\ kills = 0) =>
        (Closed(disk) <=> (exitBy \in {"total", "empty"} /\ offset >= N))

(* C5: a run whose loop ended on an empty page ends Completed: the array
   is closed with ']' and the state file is deleted. *)
C5_EmptyPageCompletes ==
    (Ended /\ exitBy = "empty") =>
        (outcome = "Completed" /\ Closed(disk) /\ ~stateExists)

(* C6: whatever total the size query resolved to, the array is closed and
   the state file deleted only when every record of the dataset was
   fetched, and a Completed download holds all N records. *)
C6_TotalDoesNotAffectResult ==
    /\ outcome = "Completed" => offset >= N
    /\ (Ended /\ outcome = "Completed" /\ kills = 0)
           => disk = Append(ArrayPrefix(N), RB)

(* C7 as claimed: at the end of a run the state file is absent iff the
   run ended Completed; after Paused or Failed it exists and holds the
   offset written so far.  (Stated for the runs whose loop did not end on
   an empty page, whose outcome is C5's subject.) *)
C7_StateAbsentIffCompleted ==
    (Ended /\ exitBy # "empty") =>
        /\ (~stateExists) <=> (outcome = "Completed")
        /\ outcome \in {"Paused", "Failed"}
               => (stateExists /\ stateOffset = offset)

(* C7 amended: a Completed run leaves no state file; a run that ended
   Paused or Failed at an offset > 0 leaves the state file in place, holding
   that offset. *)
C7_StateSurvivesAbnormalExit ==
    Ended =>
        /\ outcome = "Completed" => ~stateExists
        /\ (outcome \in {"Paused", "Failed"} /\ offset > 0)
               => (stateExists /\ stateOffset = offset)

C7_Witness ==
    /\ Ended /\ outcome = "Failed" /\ exitBy = "error"
    /\ offset >= 2 * CHUNK_SIZE /\ stateExists /\ stateOffset = offset

(* C8: a download split over several runs ends with the same bytes as one
   uninterrupted run, and the run that finishes it ends its loop on an
   empty page fetched after the full pages. *)
C8_IdempotentResume ==
    (Ended /\ outcome = "Completed" /\ kills = 0 /\ limitKept /\ dlLimit = null) =>
        /\ disk = Append(ArrayPrefix(offset), RB)
        /\ (N = 3 * CHUNK_SIZE /\ totalRecords >= N)
               => (offset = N /\ exitBy = "empty")

(* C9: with offset >= 1 records written by runs that ended, the file holds
   exactly offset - 1 commas, none right after '[' and none after the last
   record; a chunk starts with a comma exactly when the file already held
   a record. *)
C9_SeparatorPlacement ==
    kills = 0 =>
        /\ LET f == LogicalFile
               n == RecCount(f)
           IN  n >= 1 =>
                 /\ CommaCount(f) = n - 1
                 /\ f[1] = LB /\ IsRecord(f[2])
                 /\ f[Len(f)] # COMMA
                 /\ f[Len(f)] = RB => IsRecord(f[Len(f) - 1])
        /\ (Ended /\ offset >= 1) =>
               (RecCount(disk) = offset /\ CommaCount(disk) = offset - 1)
        /\ (pc \in {"drain", "advance"}) =>
               (isFirstChunk <=> (RecCount(LogicalFile) = Len(records)))

C9_Witness ==
    /\ kills = 0 /\ pc = "advance"
    /\ Len(buffer) = 2 /\ buffer[1] = <<OPEN_A>> /\ buffer[2][1] = COMMA

(* C10 as claimed: no chunk is written once the byte count is >= B, and
   the file is always smaller than B + W bytes. *)
C10_LimitBoundaryStrict ==
    /\ (pc \in {"drain", "advance"} /\ sizeLimitBytes # null) =>
           downloadedBytes - Bytes(ChunkData(records, isFirstChunk))
               < sizeLimitBytes
    /\ (kills = 0 /\ (limitKept /\ dlLimit # null)) =>
           Bytes(LogicalFile) < dlLimit + ChunkWeight

(* C10 amended: no chunk is written once the byte count is >= B; the open
   array is always smaller than B + W bytes, and the closing ']' makes the
   file at most B + W bytes. *)
C10_LimitBoundary ==
    /\ (pc \in {"drain", "advance"} /\ sizeLimitBytes # null) =>
           downloadedBytes - Bytes(ChunkData(records, isFirstChunk))
               < sizeLimitBytes
    /\ (kills = 0 /\ (limitKept /\ dlLimit # null)) =>
           /\ ~Closed(LogicalFile) => Bytes(LogicalFile) < dlLimit + ChunkWeight
           /\ Bytes(LogicalFile) <= dlLimit + ChunkWeight

C10_Witness ==
    /\ Ended /\ outcome = "Paused" /\ exitBy = "limit"
    /\ (limitKept /\ dlLimit # null)
    /\ RecCount(disk) >= CHUNK_SIZE
    /\ Bytes(disk) > dlLimit

(* C11: a page costs at most 3 requests, a failed attempt that is not the
   third is followed by the delay and the next attempt, the page handed on
   is the answer of the first attempt that succeeded, the failure is raised
   exactly after 3 failed attempts, and the run then ends Failed with the
   offset of the last written chunk and an array that is not closed. *)
C11_BoundedRetry ==
    /\ attempts \in 0 .. MAX_RETRIES
    /\ pc = "fetch" => (attempts < MAX_RETRIES /\ attempts = MAX_RETRIES - retries)
    /\ pc = "wait" =>
           (attempts \in 1 .. MAX_RETRIES - 1 /\ attempts = MAX_RETRIES - retries)
    /\ pc = "page" => (attempts >= 1 /\ records = Page(offset))
    /\ pc = "catch" =>
           (attempts = MAX_RETRIES /\ records = <<>> /\ exitBy = "error")
    /\ (exitBy = "error" /\ pc # "idle") => pc \in {"catch", "end"}
    /\ (pc = "end" /\ outcome = "Failed") =>
           /\ exitBy = "error"
           /\ prog = "limit" => (stateExists /\ stateOffset = offset)
           /\ kills = 0 =>
                  (~Closed(LogicalFile) /\ RecCount(LogicalFile) = offset)

C11_Witness ==
    /\ pc = "end" /\ outcome = "Failed" /\ kills = 0
    /\ offset >= CHUNK_SIZE /\ offset < N
    /\ RecCount(LogicalFile) = offset

\* readState has no valid state to return: no file, or no state in it
NoValidState == ~stateExists \/ stateKind # "state"

(* C12: when the state file is absent or does not hold a valid state, the
   run is not aborted, starts from offset 0, truncates the output file and
   writes '[' as its first byte. *)
C12_ReadStateFallsBack ==
    /\ outcome # "Crashed"
    /\ (pc = "open" /\ NoValidState) => offset = 0
    /\ (pc = "loop" /\ NoValidState) => (offset = 0 /\ LogicalFile = <<LB>>)

(* C13: getDatasetSize returns the fallback total for every failed or
   malformed answer of the count query and the remote's count otherwise,
   never a third value, and the run goes on with that value. *)
C13_SizeFallback ==
    /\ answer \in {"timeout", "error", "empty", "nocount", "text"}
           => totalRecords = HARDCODED_TOTAL
    /\ answer \in {"digits", "number"} => totalRecords = N
    /\ (pc \notin {"idle", "ask", "size"})
           => totalRecords \in {N, HARDCODED_TOTAL}

(* C14: a run that is about to append (offset > 0) finds the output file in
   place, starting with '[' and holding as many records as its offset says;
   in particular a run that finds the state file but no output file starts
   over from offset 0, and the runs after it resume from the offset of the
   recreated file. *)
C14_OffsetMatchesFile ==
    (pc = "open" /\ Less(0, offset)) =>
        /\ fileExists
        /\ disk # <<>> /\ disk[1] = LB
        /\ RecCount(disk) = offset

\* the files and the counters of the run are what they were
SameProgress ==
    /\ buffer' = buffer /\ disk' = disk /\ fileExists' = fileExists
    /\ offset' = offset /\ downloadedBytes' = downloadedBytes
    /\ stateExists' = stateExists /\ stateOffset' = stateOffset
    /\ stateLimit' = stateLimit

(* C15: in an iteration that finds the byte count at or over the limit the
   fetched page is dropped: the step out of the loop and the step that ends
   the run append nothing, leave offset, byte counter and state file as
   they were, and the run ends Paused with the array left open. *)
C15_LimitIterationChangesNothing ==
    /\ [][(pc = "page" /\ Len(records) # 0 /\ limitReached
             /\ pc' \notin {"page", "idle"})
            => (pc' = "finalize" /\ exitBy' = "limit" /\ SameProgress)]_vars
    /\ [][(pc = "finalize" /\ exitBy = "limit" /\ pc' \notin {"finalize", "idle"})
            => (pc' = "end" /\ outcome' = "Paused" /\ SameProgress)]_vars

C15_Witness ==
    /\ pc = "end" /\ exitBy = "limit" /\ outcome = "Paused"
    /\ Len(records) = CHUNK_SIZE /\ offset >= CHUNK_SIZE
    /\ stateExists /\ stateOffset = offset
    /\ downloadedBytes >= sizeLimitBytes

(* C16: when a run of part_000 ends Paused on the byte limit, or Failed,
   the state file holds as limitBytes the limit that this run negotiated
   at its start.  (Stated for the runs that have records on file, offset
   > 0, and were not preceded by a kill.) *)
C16_PersistedLimitIsNegotiated ==
    (/\ pc = "end" /\ prog = "limit" /\ offset > 0 /\ kills = 0
     /\ \/ outcome = "Paused" /\ exitBy = "limit"
        \/ outcome = "Failed")
        => (stateExists /\ stateLimit = sizeLimitBytes)

(* C17: a run that finds the saved limit reached by the bytes on file goes
   on only with the old limit plus the added bytes or with no limit; a run
   that is aborted at the prompt ends there, with no request sent, nothing
   handed to an output stream, and the state file and the output file as
   they were. *)
C17_CleanAbort ==
    /\ []((pc = "size" /\ ReadLimit # null /\ downloadedBytes >= ReadLimit)
            => (sizeLimitBytes = null \/ sizeLimitBytes >= ReadLimit))
    /\ []((pc = "idle" /\ outcome = "Aborted") => (~sent /\ buffer = <<>>))
    /\ [][(pc = "ask" /\ outcome' = "Aborted") =>
            /\ pc' = "idle" /\ buffer = <<>>
            /\ disk' = disk /\ fileExists' = fileExists
            /\ stateExists' = stateExists /\ stateKind' = stateKind
            /\ stateOffset' = stateOffset /\ stateLimit' = stateLimit]_vars

C17_Witness ==
    /\ pc = "idle" /\ outcome = "Aborted"
    /\ stateExists /\ stateOffset > 0 /\ stateLimit # null
    /\ fileExists /\ Bytes(disk) >= stateLimit

(* C18: one page request at a time, and the request for an offset is sent
   only when the iteration before it is over: its chunk was handed to the
   stream, the stream had drained if the write reported a full buffer, the
   offset was advanced and the state saved with that offset. *)
C18_SequentialPipeline ==
    /\ [](pc \in {"fetch", "wait"} =>
            /\ records = <<>>
            /\ offset = 0 \/ (stateExists /\ stateOffset = offset)
            /\ kills = 0 => RecCount(LogicalFile) = offset)
    /\ [][(pc' = "fetch" /\ pc # "fetch") => pc \in {"loop", "wait"}]_vars
    /\ [][(pc' = "loop" /\ pc # "loop") =>
            \/ pc = "open"
            \/ /\ pc = "advance"
               /\ offset' = offset + Len(records)
               /\ stateExists' /\ stateOffset' = offset']_vars
    /\ [][(pc' = "advance" /\ pc # "advance") =>
            \/ pc = "page" /\ buffer' = Append(buffer, ChunkData(records, isFirstChunk))
            \/ pc = "drain" /\ buffer = <<>>]_vars

C18_Witness ==
    /\ pc = "fetch" /\ kills = 0
    /\ offset = 2 * CHUNK_SIZE /\ stateExists /\ stateOffset = offset
    /\ buffer = <<>> /\ RecCount(disk) = offset

(* C19 as claimed: every started run reaches Completed, Paused or Failed. *)
C19_EveryRunEnds ==
    (outcome = "running") ~> (outcome \in {"Completed", "Paused", "Failed"})

(* C19 amended: every started run ends: a run that got past the limit
   prompt reaches Completed, Paused or Failed, and a run can also end at
   the prompt, aborted by the operator. *)
C19_EveryRunEndsOrAborts ==
    /\ (pc = "size") ~> (outcome \in {"Completed", "Paused", "Failed"})
    /\ (outcome = "running") ~>
           (outcome \in {"Completed", "Paused", "Failed", "Aborted"})

C19_Witness ==
    /\ pc = "end" /\ outcome = "Failed" /\ exitBy = "error"
    /\ offset = 0 /\ attempts = MAX_RETRIES /\ ~stateExists

(* C20: the write stream a run opened is ended when the run reaches its
   final state, the readline interface of the prompt is closed on every
   path that returns a decision and on abort, and no handle is left when
   the process is gone. *)
C20_HandlesReleased ==
    /\ pc \notin {"idle", "ask"} => ~rlOpen
    /\ pc = "end" => writer = "ended"
    /\ pc = "idle" => (~rlOpen /\ writer = "none")

\* closing brackets in a byte sequence
RECURSIVE RBCount(_)
RBCount(s) ==
    IF s = <<>> THEN 0
    ELSE (IF Head(s) = RB THEN 1 ELSE 0) + RBCount(Tail(s))

\* at most one ']' and nothing after it
ClosedOnce(s) ==
    /\ RBCount(s) <= 1
    /\ \A i \in 1 .. Len(s) : s[i] = RB => i = Len(s)

(* C21: over any sequence of runs and kills on the same output file, the
   file never holds more than one closing ']' and nothing is ever appended
   after a closing ']', on disk and once the stream has written all it was
   handed. *)
C21_ClosedAtMostOnce ==
    /\ fileExists => ClosedOnce(disk)
    /\ ClosedOnce(LogicalFile)

\* ------------------------------------------- runs repeated to the end
\* the operator starts the program again after every Paused or Failed exit
Rerun ==
    /\ outcome \in {"none", "Paused", "Failed"}
    /\ StartLimit \/ StartBasic

\* the operator asks for the whole dataset: (A)ll, no byte limit
NegotiateNoLimit == NegotiateLimit /\ sizeLimitBytes' = null

\* a step of a run without a byte limit
RerunStep ==
    \/ NegotiateNoLimit \/ getDatasetSize
    \/ ReadStateBasic \/ OpenWriterLimit \/ OpenWriterBasic
    \/ LoopTest \/ FetchSuccess \/ FetchFail \/ RetryDelay
    \/ EmptyPage \/ WriteChunk \/ Drain \/ Advance
    \/ FinalizeLimit \/ FinalizeBasic \/ Cleanup \/ CatchLimit \/ CatchBasic
    \/ Flush \/ InputEnds \/ Exit

NextRerun == Rerun \/ RerunStep

\* no kill, no limit; a run that can take a step takes one, the program is
\* started again while the download is not Completed, and a page request
\* that is sent again and again is answered in the end
RerunSpec ==
    /\ Init /\ [][NextRerun]_vars
    /\ WF_vars(RerunStep) /\ WF_vars(Rerun) /\ SF_vars(FetchSuccess)

(* C22: with no byte limit and page requests that succeed in the end,
   starting the program again after every Paused or Failed exit reaches
   Completed after finitely many runs, with the array closed by ']' and the
   state file deleted, whatever total the size query resolves to. *)
C22_RerunsComplete ==
    <>(/\ pc = "idle" /\ outcome = "Completed"
       /\ fileExists /\ Closed(disk) /\ ~stateExists)

====
